---- MODULE Spec2Model ----
(***************************************************************************)
(* Model of the logrus adapter of golang-mixins/logging                    *)
(* (src/logrus/logging.go) and of the Entry/Logger interface it implements.*)
(*                                                                         *)
(* Go maps and pointers are references, so the field mappings live in a    *)
(* heap (maps) and entries hold the index of their Data map.  Handle 0 is  *)
(* the root ContextLogger, handles 1..Len(entries) are *entry values.      *)
(***************************************************************************)
EXTENDS Integers, Sequences, FiniteSets, TLC

\* ------------------------------------------------------------------ bounds
MaxEntries == 2
MaxCtxDepth == 2
MaxWrites == 1
MaxBatch == 2
NumThreads == 2
MaxOutputs == 2
MaxFds == 3
MaxEmit == 2
MaxCalls == 2

Keys == {"a", "b"}
Vals == {1, 2}

\* ------------------------------------------------------------ Go constants
Root == 0
NilPtr == -1
NilChan == 0
BreakerChan == 1

VARIABLES
    maps,       \* heap of Go maps (log.Fields / logging.Values objects)
    entries,    \* heap of *entry objects: [Data |-> map index, breaker |-> channel]
    held,       \* map references the caller obtained from GetValues
    writes,     \* number of writes the caller made to maps it holds
    ctx,        \* the context.Context the caller currently holds (chain of WithValue layers)
    last        \* the last call made: its name, the handle it was made on, its argument

VARIABLES
    hooks,      \* the hooks registered on the logrus Logger, in registration order
    mutex,      \* cl.mutex: the goroutine that holds it, NoOne when it is free
    hk          \* per goroutine: where its AddHooks call stands

VARIABLES
    fds,        \* the file descriptors New opened and never closes: their paths, in order
    created,    \* the files that exist because an OpenFile of New created them
    nw,         \* the last New call: its arguments and what it returned
    written,    \* per destination, the records written to it since the last New
    emitted     \* the records that passed the level filter since the last New

VARIABLES
    caller,     \* the calling goroutine: where it stands in GracefulFatal, on which handle
    gs,         \* the goroutines GracefulFatal spawned, by call number
    sendq,      \* the senders parked on the shutdown channel, first come first
    recvWaiting,\* a receiver is parked on the shutdown channel
    closed,     \* the shutdown channel has been closed
    received,   \* what the receiver got, in order: call numbers, ZeroCtx from a closed channel
    crashed     \* a panic left a goroutine unrecovered: the process is gone

entryVars == <<maps, entries, held, writes, ctx, last>>
hookVars == <<hooks, mutex, hk>>
newVars == <<fds, created, nw, written, emitted>>
fatalVars == <<caller, gs, sendq, recvWaiting, closed, received, crashed>>

vars == <<entryVars, hookVars, newVars, fatalVars>>

nonEntryVars == <<hookVars, newVars, fatalVars>>
nonHookVars == <<entryVars, newVars, fatalVars>>
nonNewVars == <<entryVars, hookVars, fatalVars>>
nonFatalVars == <<entryVars, hookVars, newVars>>

\* ------------------------------------------------------------------ values
EmptyValues == [k \in {} |-> 0]

AllValues == UNION {[S -> Vals] : S \in SUBSET Keys}

\* logrus Entry.WithFields: a new map holding the receiver's fields, then the
\* new fields written over them.
WithFields(data, v) ==
    [k \in (DOMAIN data) \cup (DOMAIN v) |-> IF k \in DOMAIN v THEN v[k] ELSE data[k]]

EntryIds == 1..Len(entries)

MaxMaps == MaxEntries + 1

\* The ContextLogger built by New: it keeps the caller's channel.
cl == [breaker |-> BreakerChan]

\* ------------------------------------------------------------------ context
ctxValue == "ctxValue"
otherKey == "otherKey"

NilValue == [typ |-> "nil", ptr |-> NilPtr]

Front(s) == SubSeq(s, 1, Len(s) - 1)

\* context.Context.Value: the nearest layer stored under the key.
RECURSIVE Value(_, _)
Value(c, key) ==
    IF c = <<>> THEN NilValue
    ELSE IF c[Len(c)].key = key THEN c[Len(c)].val
    ELSE Value(Front(c), key)

\* context.WithValue
WithValue(c, key, val) == Append(c, [key |-> key, val |-> val])

\* ------------------------------------------------------------ entry methods
entry_WithValues_InPlace(e, v) ==
    /\ Len(entries) < MaxEntries
    /\ maps' = [maps EXCEPT ![entries[e].Data] = WithFields(@, v)]
    /\ entries' = Append(entries, [Data |-> entries[e].Data, breaker |-> entries[e].breaker])
    /\ last' = [op |-> "WithValues", h |-> e, v |-> v]
    /\ UNCHANGED <<held, writes, ctx>>
    /\ UNCHANGED nonEntryVars

\* func (e *entry) WithValues(v logging.Values) logging.Entry
entry_WithValues(e, v) ==
    /\ Len(entries) < MaxEntries
    /\ Len(maps) < MaxMaps
    /\ maps' = Append(maps, WithFields(maps[entries[e].Data], v))
    /\ entries' = Append(entries, [Data |-> Len(maps) + 1, breaker |-> entries[e].breaker])
    /\ last' = [op |-> "WithValues", h |-> e, v |-> v]
    /\ UNCHANGED <<held, writes, ctx>>
    /\ UNCHANGED nonEntryVars

\* func (e *entry) GetValues() logging.Values: the conversion of e.Data, the
\* same map object, which the caller holds from then on.
entry_GetValues(e) ==
    /\ held' = held \cup {entries[e].Data}
    /\ last' = [op |-> "GetValues", h |-> e, v |-> EmptyValues]
    /\ UNCHANGED <<maps, entries, writes, ctx>>
    /\ UNCHANGED nonEntryVars

\* The type assertion ctx.Value(ctxValue).(*entry) of both FromContext methods.
AssertEntry(val) == IF val.typ = "*entry" THEN val.ptr ELSE NilPtr

\* func (e *entry) FromContext(ctx context.Context) logging.Entry
entry_FromContext(c) ==
    LET logger == AssertEntry(Value(c, ctxValue))
    IN IF logger = NilPtr THEN NilPtr ELSE logger

\* func (e *entry) NewContext(ctx context.Context) context.Context
entry_NewContext(e) ==
    /\ Len(ctx) < MaxCtxDepth
    /\ ctx' = WithValue(ctx, ctxValue, [typ |-> "*entry", ptr |-> e])
    /\ last' = [op |-> "NewContext", h |-> e, v |-> EmptyValues]
    /\ UNCHANGED <<maps, entries, held, writes>>
    /\ UNCHANGED nonEntryVars

\* ---------------------------------------------------- ContextLogger methods
ContextLogger_WithValues_NoBreaker(v) ==
    /\ Len(entries) < MaxEntries
    /\ Len(maps) < MaxMaps
    /\ maps' = Append(maps, WithFields(EmptyValues, v))
    /\ entries' = Append(entries, [Data |-> Len(maps) + 1, breaker |-> NilChan])
    /\ last' = [op |-> "WithValues", h |-> Root, v |-> v]
    /\ UNCHANGED <<held, writes, ctx>>
    /\ UNCHANGED nonEntryVars

\* func (cl *ContextLogger) WithValues(v logging.Values) logging.Entry
\* (logrus Logger.WithFields starts from a new entry with an empty Data map)
ContextLogger_WithValues(v) ==
    /\ Len(entries) < MaxEntries
    /\ Len(maps) < MaxMaps
    /\ maps' = Append(maps, WithFields(EmptyValues, v))
    /\ entries' = Append(entries, [Data |-> Len(maps) + 1, breaker |-> cl.breaker])
    /\ last' = [op |-> "WithValues", h |-> Root, v |-> v]
    /\ UNCHANGED <<held, writes, ctx>>
    /\ UNCHANGED nonEntryVars

\* func (cl *ContextLogger) GetValues() logging.Values: a new empty map per call.
ContextLogger_GetValues ==
    /\ Len(maps) < MaxMaps
    /\ maps' = Append(maps, EmptyValues)
    /\ held' = held \cup {Len(maps) + 1}
    /\ last' = [op |-> "GetValues", h |-> Root, v |-> EmptyValues]
    /\ UNCHANGED <<entries, writes, ctx>>
    /\ UNCHANGED nonEntryVars

\* func (cl *ContextLogger) FromContext(ctx context.Context) logging.Entry
ContextLogger_FromContext(c) ==
    LET e == AssertEntry(Value(c, ctxValue))
    IN IF e = NilPtr THEN NilPtr ELSE e

\* func (cl *ContextLogger) NewContext(ctx context.Context) context.Context:
\* the stored value is the *log.Entry returned by cl.WithFields(log.Fields(nil)),
\* a logrus entry with an empty Data map, not an *entry.
ContextLogger_NewContext ==
    /\ Len(ctx) < MaxCtxDepth
    /\ ctx' = WithValue(ctx, ctxValue, [typ |-> "*log.Entry", ptr |-> Root])
    /\ last' = [op |-> "NewContext", h |-> Root, v |-> EmptyValues]
    /\ UNCHANGED <<maps, entries, held, writes>>
    /\ UNCHANGED nonEntryVars

\* ------------------------------------------------------- the caller's moves
\* The caller writes a key of a logging.Values it got from GetValues.
ValuesSet(m, k, x) ==
    /\ writes < MaxWrites
    /\ maps' = [maps EXCEPT ![m] = WithFields(@, [j \in {k} |-> x])]
    /\ last' = [op |-> "ValuesSet", h |-> NilPtr, v |-> EmptyValues]
    /\ writes' = writes + 1
    /\ UNCHANGED <<entries, held, ctx>>
    /\ UNCHANGED nonEntryVars

\* The caller deletes a key of a logging.Values it got from GetValues.
ValuesDelete(m, k) ==
    /\ writes < MaxWrites
    /\ k \in DOMAIN maps[m]
    /\ maps' = [maps EXCEPT ![m] = [j \in (DOMAIN @) \ {k} |-> @[j]]]
    /\ last' = [op |-> "ValuesDelete", h |-> NilPtr, v |-> EmptyValues]
    /\ writes' = writes + 1
    /\ UNCHANGED <<entries, held, ctx>>
    /\ UNCHANGED nonEntryVars

\* The caller starts again from context.Background().
Background ==
    /\ ctx # <<>>
    /\ ctx' = <<>>
    /\ last' = [op |-> "Background", h |-> NilPtr, v |-> EmptyValues]
    /\ UNCHANGED <<maps, entries, held, writes>>
    /\ UNCHANGED nonEntryVars

\* The caller stores a value of its own under a key of its own.
ForeignWithValue ==
    /\ Len(ctx) < MaxCtxDepth
    /\ ctx' = WithValue(ctx, otherKey, [typ |-> "string", ptr |-> NilPtr])
    /\ last' = [op |-> "ForeignWithValue", h |-> NilPtr, v |-> EmptyValues]
    /\ UNCHANGED <<maps, entries, held, writes>>
    /\ UNCHANGED nonEntryVars

\* ------------------------------------------------------------------ hooks
NoOne == 0
Threads == 1..NumThreads

\* Values of the two hook types, a value of a type without the Hook methods,
\* and the nil interface value.
Hooks == {"h1", "h2"}
NotAHook == "notAHook"
NilValueArg == "nil"
Args == Hooks \cup {NotAHook, NilValueArg}

BatchesOf(S) == UNION {[1..n -> S] : n \in 0..MaxBatch}

MaxHooks == NumThreads * MaxBatch

\* hook, ok := v.(log.Hook)
AssertHook(v) == IF v \in Hooks THEN [hook |-> v, ok |-> TRUE]
                 ELSE [hook |-> NilValueArg, ok |-> FALSE]

\* AddHooks is entered with its arguments; its first statement waits for the mutex.
AddHooks_Call(t, batch) ==
    /\ hk[t].pc = "idle"
    /\ Len(hooks) + Len(batch) <= MaxHooks
    /\ hk' = [hk EXCEPT ![t] = [pc |-> "lock", batch |-> batch, i |-> 1,
                                 snap |-> <<>>, err |-> FALSE]]
    /\ UNCHANGED <<hooks, mutex>>
    /\ UNCHANGED nonHookVars

AddHooks_Lock_NoWait(t) ==
    /\ hk[t].pc = "lock"
    /\ mutex' = t
    /\ hk' = [hk EXCEPT ![t].pc = "loop", ![t].snap = hooks]
    /\ UNCHANGED hooks
    /\ UNCHANGED nonHookVars

\* cl.mutex.Lock()
AddHooks_Lock(t) ==
    /\ hk[t].pc = "lock"
    /\ mutex = NoOne
    /\ mutex' = t
    /\ hk' = [hk EXCEPT ![t].pc = "loop", ![t].snap = hooks]
    /\ UNCHANGED hooks
    /\ UNCHANGED nonHookVars

\* One turn of "for _, v := range hooks": the assertion, the early return with
\* the error, or cl.AddHook(hook); after the last element, return nil.
AddHooks_Range(t) ==
    /\ hk[t].pc = "loop"
    /\ IF hk[t].i > Len(hk[t].batch)
       THEN /\ hk' = [hk EXCEPT ![t].pc = "unlock", ![t].err = FALSE]
            /\ UNCHANGED hooks
       ELSE LET a == AssertHook(hk[t].batch[hk[t].i])
            IN IF ~a.ok \/ a.hook = NilValueArg
               THEN /\ hk' = [hk EXCEPT ![t].pc = "unlock", ![t].err = TRUE]
                    /\ UNCHANGED hooks
               ELSE /\ hooks' = Append(hooks, a.hook)
                    /\ hk' = [hk EXCEPT ![t].i = @ + 1]
    /\ UNCHANGED mutex
    /\ UNCHANGED nonHookVars

\* defer cl.mutex.Unlock(), and the call returns.
AddHooks_Unlock(t) ==
    /\ hk[t].pc = "unlock"
    /\ mutex' = NoOne
    /\ hk' = [hk EXCEPT ![t].pc = "done"]
    /\ UNCHANGED hooks
    /\ UNCHANGED nonHookVars

\* The goroutine is ready to call AddHooks again.
AddHooks_Again(t) ==
    /\ hk[t].pc = "done"
    /\ hk' = [hk EXCEPT ![t] = [pc |-> "idle", batch |-> <<>>, i |-> 1,
                                 snap |-> <<>>, err |-> FALSE]]
    /\ UNCHANGED <<hooks, mutex>>
    /\ UNCHANGED nonHookVars

\* -------------------------------------------------------------------- New
DebugLevel == "debug"
InfoLevel == "info"
WarnLevel == "warning"
ErrorLevel == "error"
FatalLevel == "fatal"
PanicLevel == "panic"

LevelNames == {DebugLevel, InfoLevel, WarnLevel, ErrorLevel, FatalLevel, PanicLevel}

\* logrus levels: the smaller, the more severe.
LevelNum(l) ==
    CASE l = PanicLevel -> 0
      [] l = FatalLevel -> 1
      [] l = ErrorLevel -> 2
      [] l = WarnLevel -> 3
      [] l = InfoLevel -> 4
      [] l = DebugLevel -> 5

\* A level string log.ParseLevel rejects.
BadLevel == "verbose"

\* Paths os.OpenFile can open or create, and one it cannot.
ValidPaths == {"f1", "f2"}
BadPath == "nodir/f"
Paths == ValidPaths \cup {BadPath}

Stdout == "os.Stdout"
Stderr == "os.Stderr"
Sinks == {Stdout, Stderr} \cup ValidPaths

NoErr == "nil"
NilLogger == [Out |-> <<>>, Level |-> "", breaker |-> NilChan]

OutputLists == UNION {[1..n -> Paths] : n \in 0..MaxOutputs}

\* The loop over outputs: os.OpenFile(v, O_APPEND|O_WRONLY|O_CREATE, 0600) for
\* each path in turn, up to the first failure.
RECURSIVE OpenOutputs(_, _, _)
OpenOutputs(outputs, i, acc) ==
    IF i > Len(outputs) THEN acc
    ELSE IF outputs[i] \notin ValidPaths
         THEN [acc EXCEPT !.err = "error open file path"]
         ELSE OpenOutputs(outputs, i + 1,
                          [acc EXCEPT !.writers = Append(@, outputs[i]),
                                      !.fds = Append(@, outputs[i]),
                                      !.created = @ \cup {outputs[i]}])

New_OpensFirst(breaker, level, outputs) ==
    LET opened == OpenOutputs(outputs, 1,
                      [writers |-> <<Stdout>>, fds |-> fds, created |-> created, err |-> NoErr])
    IN IF breaker = NilChan
       THEN [logger |-> NilLogger, err |-> "breaker can't be nil",
             fds |-> opened.fds, created |-> opened.created]
       ELSE IF opened.err # NoErr
       THEN [logger |-> NilLogger, err |-> opened.err,
             fds |-> opened.fds, created |-> opened.created]
       ELSE IF level \notin LevelNames
       THEN [logger |-> NilLogger, err |-> "error parse level value",
             fds |-> opened.fds, created |-> opened.created]
       ELSE [logger |-> [Out |-> opened.writers, Level |-> level, breaker |-> breaker],
             err |-> NoErr, fds |-> opened.fds, created |-> opened.created]

\* func New(breaker chan context.Context, level string, outputs ...string):
\* what it returns and what it leaves open and created in the file system.
New(breaker, level, outputs) ==
    IF breaker = NilChan
    THEN [logger |-> NilLogger, err |-> "breaker can't be nil",
          fds |-> fds, created |-> created]
    ELSE LET opened == OpenOutputs(outputs, 1,
                           [writers |-> <<Stdout>>, fds |-> fds, created |-> created,
                            err |-> NoErr])
         IN IF opened.err # NoErr
            THEN [logger |-> NilLogger, err |-> opened.err,
                  fds |-> opened.fds, created |-> opened.created]
            ELSE IF level \notin LevelNames
            THEN [logger |-> NilLogger, err |-> "error parse level value",
                  fds |-> opened.fds, created |-> opened.created]
            ELSE [logger |-> [Out |-> opened.writers, Level |-> level, breaker |-> breaker],
                  err |-> NoErr, fds |-> opened.fds, created |-> opened.created]

\* The program calls New.
New_Call(breaker, level, outputs) ==
    /\ Len(fds) + Len(outputs) <= MaxFds
    /\ LET r == New(breaker, level, outputs)
       IN /\ nw' = [breaker |-> breaker, level |-> level, outputs |-> outputs,
                    logger |-> r.logger, err |-> r.err]
          /\ fds' = r.fds
          /\ created' = r.created
    /\ written' = [w \in Sinks |-> 0]
    /\ emitted' = 0
    /\ UNCHANGED nonNewVars

Occurrences(seq, x) == Cardinality({i \in 1..Len(seq) : seq[i] = x})

\* One of the emission methods promoted from *log.Logger: the record is
\* dropped below the logger's level, else io.MultiWriter writes it to every
\* writer of logger.Out.
Emit(level) ==
    /\ nw.logger # NilLogger
    /\ emitted < MaxEmit
    /\ IF LevelNum(nw.logger.Level) >= LevelNum(level)
       THEN /\ emitted' = emitted + 1
            /\ written' = [w \in Sinks |-> written[w] + Occurrences(nw.logger.Out, w)]
       ELSE UNCHANGED <<emitted, written>>
    /\ UNCHANGED <<fds, created, nw>>
    /\ UNCHANGED nonNewVars

\* ---------------------------------------------------------- GracefulFatal
ZeroCtx == 0

\* The channel a handle sends on: cl.breaker or e.breaker.
BreakerOf(h) == IF h = Root THEN cl.breaker ELSE entries[h].breaker

Range(seq) == {seq[i] : i \in 1..Len(seq)}

\* func (cl *ContextLogger) GracefulFatal(ctx context.Context), up to the go
\* statement: trace.StartSpan and defer span.End().
ContextLogger_GracefulFatal ==
    /\ caller.pc = "idle"
    /\ Len(gs) < MaxCalls
    /\ caller' = [pc |-> "go", h |-> Root]
    /\ UNCHANGED <<gs, sendq, recvWaiting, closed, received, crashed>>
    /\ UNCHANGED nonFatalVars

\* func (e *entry) GracefulFatal(ctx context.Context), up to the go statement.
entry_GracefulFatal(e) ==
    /\ caller.pc = "idle"
    /\ Len(gs) < MaxCalls
    /\ caller' = [pc |-> "go", h |-> e]
    /\ UNCHANGED <<gs, sendq, recvWaiting, closed, received, crashed>>
    /\ UNCHANGED nonFatalVars

GracefulFatal_SendInline ==
    /\ caller.pc = "go"
    /\ recvWaiting
    /\ BreakerOf(caller.h) # NilChan
    /\ ~closed
    /\ gs' = Append(gs, [st |-> "sent", h |-> caller.h, late |-> closed, hit |-> FALSE])
    /\ received' = Append(received, Len(gs) + 1)
    /\ recvWaiting' = FALSE
    /\ caller' = [caller EXCEPT !.pc = "deferred"]
    /\ UNCHANGED <<sendq, closed, crashed>>
    /\ UNCHANGED nonFatalVars

\* go func() { defer func() { _ = recover() }(); breaker <- ctx }(): the
\* statement starts the sender and the caller goes on.
GracefulFatal_Go ==
    /\ caller.pc = "go"
    /\ gs' = Append(gs, [st |-> "runnable", h |-> caller.h, late |-> closed, hit |-> FALSE])
    /\ caller' = [caller EXCEPT !.pc = "deferred"]
    /\ UNCHANGED <<sendq, recvWaiting, closed, received, crashed>>
    /\ UNCHANGED nonFatalVars

\* The deferred span.End() runs and GracefulFatal returns.
GracefulFatal_Return ==
    /\ caller.pc = "deferred"
    /\ caller' = [pc |-> "idle", h |-> NilPtr]
    /\ UNCHANGED <<gs, sendq, recvWaiting, closed, received, crashed>>
    /\ UNCHANGED nonFatalVars

\* The sender runs "breaker <- ctx" on an unbuffered channel: it blocks for
\* ever on a nil channel, panics on a closed one, hands its value to a parked
\* receiver, and parks itself otherwise.
Sender_Send(g) ==
    /\ gs[g].st = "runnable"
    /\ IF BreakerOf(gs[g].h) = NilChan
       THEN /\ gs' = [gs EXCEPT ![g].st = "stuck"]
            /\ UNCHANGED <<sendq, recvWaiting, received>>
       ELSE IF closed
       THEN /\ gs' = [gs EXCEPT ![g].st = "panicking"]
            /\ UNCHANGED <<sendq, recvWaiting, received>>
       ELSE IF recvWaiting
       THEN /\ gs' = [gs EXCEPT ![g].st = "sent"]
            /\ received' = Append(received, g)
            /\ recvWaiting' = FALSE
            /\ UNCHANGED sendq
       ELSE /\ gs' = [gs EXCEPT ![g].st = "parked"]
            /\ sendq' = Append(sendq, g)
            /\ UNCHANGED <<recvWaiting, received>>
    /\ UNCHANGED <<caller, closed, crashed>>
    /\ UNCHANGED nonFatalVars

Sender_NoRecover(g) ==
    /\ gs[g].st = "panicking"
    /\ gs' = [gs EXCEPT ![g].st = "dead"]
    /\ crashed' = TRUE
    /\ UNCHANGED <<caller, sendq, recvWaiting, closed, received>>
    /\ UNCHANGED nonFatalVars

\* defer func() { _ = recover() }(): the panic of the send stops here and the
\* sender ends.
Sender_Recover(g) ==
    /\ gs[g].st = "panicking"
    /\ gs' = [gs EXCEPT ![g].st = "recovered"]
    /\ UNCHANGED <<caller, sendq, recvWaiting, closed, received, crashed>>
    /\ UNCHANGED nonFatalVars

\* The supervisor receives from the shutdown channel: the zero value once the
\* channel is closed, the value of the first parked sender, or it parks.
Receiver_Recv ==
    /\ ~recvWaiting
    /\ IF closed
       THEN /\ ZeroCtx \notin Range(received)
            /\ received' = Append(received, ZeroCtx)
            /\ UNCHANGED <<gs, sendq, recvWaiting>>
       ELSE IF sendq # <<>>
       THEN /\ received' = Append(received, Head(sendq))
            /\ sendq' = Tail(sendq)
            /\ gs' = [gs EXCEPT ![Head(sendq)].st = "sent"]
            /\ UNCHANGED recvWaiting
       ELSE /\ recvWaiting' = TRUE
            /\ UNCHANGED <<gs, sendq, received>>
    /\ UNCHANGED <<caller, closed, crashed>>
    /\ UNCHANGED nonFatalVars

\* The owner of the shutdown channel closes it: every parked sender wakes up
\* to a panic and a parked receiver gets the zero value.
Close ==
    /\ ~closed
    /\ closed' = TRUE
    /\ gs' = [g \in 1..Len(gs) |->
                IF gs[g].st = "parked"
                THEN [gs[g] EXCEPT !.st = "panicking", !.hit = TRUE]
                ELSE gs[g]]
    /\ sendq' = <<>>
    /\ IF recvWaiting
       THEN /\ recvWaiting' = FALSE
            /\ received' = Append(received, ZeroCtx)
       ELSE UNCHANGED <<recvWaiting, received>>
    /\ UNCHANGED <<caller, crashed>>
    /\ UNCHANGED nonFatalVars

\* The mapping a GetValues call on handle h yields in the current state.
GetValuesOf(h) == IF h = Root THEN EmptyValues ELSE maps[entries[h].Data]

\* --------------------------------------------------------- specification
Init ==
    /\ maps = <<>>
    /\ entries = <<>>
    /\ held = {}
    /\ ctx = <<>>
    /\ writes = 0
    /\ last = [op |-> "New", h |-> Root, v |-> EmptyValues]
    /\ hooks = <<>>
    /\ mutex = NoOne
    /\ fds = <<>>
    /\ created = {}
    /\ caller = [pc |-> "idle", h |-> NilPtr]
    /\ gs = <<>>
    /\ sendq = <<>>
    /\ recvWaiting = FALSE
    /\ closed = FALSE
    /\ received = <<>>
    /\ crashed = FALSE
    /\ nw = [breaker |-> NilChan, level |-> "", outputs |-> <<>>,
             logger |-> NilLogger, err |-> NoErr]
    /\ written = [w \in Sinks |-> 0]
    /\ emitted = 0
    /\ hk = [t \in Threads |-> [pc |-> "idle", batch |-> <<>>, i |-> 1,
                                 snap |-> <<>>, err |-> FALSE]]

\* Field chaining and the mappings handed out by GetValues.
NextValues ==
    \/ \E v \in AllValues : ContextLogger_WithValues(v)
    \/ \E e \in EntryIds, v \in AllValues : entry_WithValues(e, v)
    \/ ContextLogger_GetValues
    \/ \E e \in EntryIds : entry_GetValues(e)
    \/ \E m \in held, k \in Keys, x \in Vals : ValuesSet(m, k, x)
    \/ \E m \in held, k \in Keys : ValuesDelete(m, k)

SpecValues == Init /\ [][NextValues]_vars

\* Entries stored in and read back from contexts.
NextContext ==
    \/ \E v \in AllValues : ContextLogger_WithValues(v)
    \/ \E e \in EntryIds, v \in AllValues : entry_WithValues(e, v)
    \/ ContextLogger_NewContext
    \/ \E e \in EntryIds : entry_NewContext(e)
    \/ Background
    \/ ForeignWithValue

SpecContext == Init /\ [][NextContext]_vars

\* One goroutine registering batches of any arguments, call after call.
NextHooks ==
    \/ \E b \in BatchesOf(Args) : AddHooks_Call(1, b)
    \/ AddHooks_Lock(1)
    \/ AddHooks_Range(1)
    \/ AddHooks_Unlock(1)
    \/ AddHooks_Again(1)

SpecHooks == Init /\ [][NextHooks]_vars

\* Every goroutine registering one batch of hooks, concurrently.
NextConcurrentHooks ==
    \/ \E t \in Threads, b \in BatchesOf(Hooks) : AddHooks_Call(t, b)
    \/ \E t \in Threads : AddHooks_Lock(t)
    \/ \E t \in Threads : AddHooks_Range(t)
    \/ \E t \in Threads : AddHooks_Unlock(t)

SpecConcurrentHooks == Init /\ [][NextConcurrentHooks]_vars

\* Construction, and emission through the constructed logger.
NextNew ==
    \/ \E b \in {NilChan, BreakerChan}, l \in LevelNames \cup {BadLevel}, o \in OutputLists :
          New_Call(b, l, o)
    \/ \E l \in {DebugLevel, InfoLevel, WarnLevel, ErrorLevel} : Emit(l)

SpecNew == Init /\ [][NextNew]_vars

\* The shutdown signal: entries are derived, GracefulFatal is called on the
\* Logger and on entries, senders run, a supervisor receives, the channel is
\* closed at some point or never.
FatalCalls ==
    \/ ContextLogger_WithValues(EmptyValues)
    \/ \E e \in EntryIds : entry_WithValues(e, EmptyValues)
    \/ ContextLogger_GracefulFatal
    \/ \E e \in EntryIds : entry_GracefulFatal(e)

NextFatalLive ==
    \/ FatalCalls
    \/ GracefulFatal_Go
    \/ GracefulFatal_Return
    \/ \E g \in 1..Len(gs) : Sender_Send(g)
    \/ Receiver_Recv

NextFatal ==
    \/ NextFatalLive
    \/ \E g \in 1..Len(gs) : Sender_Recover(g)
    \/ Close

SpecFatal == Init /\ [][NextFatal]_vars

\* The channel is never closed, the scheduler runs every goroutine that can
\* run, and the supervisor keeps receiving.
SpecFatalLive ==
    /\ Init
    /\ [][NextFatalLive]_vars
    /\ WF_vars(GracefulFatal_Go)
    /\ WF_vars(GracefulFatal_Return)
    /\ \A g \in 1..MaxCalls : WF_vars(g <= Len(gs) /\ Sender_Send(g))
    /\ WF_vars(Receiver_Recv)

\* ------------------------------------------------------------------ claims
a1 == [k \in {"a"} |-> 1]
b2 == [k \in {"b"} |-> 2]
a1b2 == [k \in {"a", "b"} |-> IF k = "a" THEN 1 ELSE 2]

\* A context on which NewContext was never called.
Untouched(c) == \A i \in 1..Len(c) : c[i].key # ctxValue

\* C1: FromContext(h.NewContext(ctx)) is a non-nil Entry whose GetValues is
\* the mapping that was stored (h's own fields, the empty mapping for the
\* root Logger), and FromContext on a context NewContext never touched is nil.
C1_ContextRoundTrip ==
    /\ last.op = "NewContext" =>
          /\ ContextLogger_FromContext(ctx) # NilPtr
          /\ entry_FromContext(ctx) # NilPtr
          /\ GetValuesOf(ContextLogger_FromContext(ctx)) = GetValuesOf(last.h)
          /\ GetValuesOf(entry_FromContext(ctx)) = GetValuesOf(last.h)
    /\ Untouched(ctx) =>
          /\ ContextLogger_FromContext(ctx) = NilPtr
          /\ entry_FromContext(ctx) = NilPtr

\* C2: a WithValues call on any handle returns a new Entry whose mapping is
\* the union of the receiver's fields and v, v winning on a shared key, and
\* the receiver and every other existing handle yield what they yielded before.
C2_WithValuesChains ==
    [][(last'.op = "WithValues" /\ Len(entries') = Len(entries) + 1) =>
          LET old == GetValuesOf(last'.h)
              v == last'.v
              new == maps'[entries'[Len(entries')].Data]
          IN /\ DOMAIN new = (DOMAIN old) \cup (DOMAIN v)
             /\ \A k \in DOMAIN v : new[k] = v[k]
             /\ \A k \in (DOMAIN old) \ (DOMAIN v) : new[k] = old[k]
             /\ \A e \in EntryIds : maps'[entries'[e].Data] = maps[entries[e].Data]
      ]_vars

\* C2 witness: WithValues({a:1}).WithValues({b:2}) has been built, the first
\* entry still yields {a:1} and the second yields {a:1, b:2}.
C2_Witness ==
    /\ Len(entries) = 2
    /\ last.op = "WithValues" /\ last.h = 1 /\ last.v = b2
    /\ GetValuesOf(1) = a1
    /\ GetValuesOf(2) = a1b2

\* C7: the mapping GetValues returns is a copy, so a write or a delete the
\* caller makes on it leaves every entry's later GetValues unchanged, and
\* GetValues on the root Logger returns an empty mapping.
C7_GetValuesCopies ==
    [][/\ (last'.op \in {"ValuesSet", "ValuesDelete"} /\ writes' = writes + 1) =>
            \A e \in EntryIds : maps'[entries'[e].Data] = maps[entries[e].Data]
       /\ (last'.op = "GetValues" /\ last'.h = Root /\ Len(maps') = Len(maps) + 1) =>
            maps'[Len(maps')] = EmptyValues
      ]_vars

Offending(b) == \E i \in 1..Len(b) : b[i] \notin Hooks

\* C3: an AddHooks call whose batch holds a value that is not a Hook, or a
\* nil, at any position returns an error and leaves the hook list exactly as
\* it was before the call.
C3_AddHooksAllOrNothing ==
    \A t \in Threads :
        (hk[t].pc \in {"unlock", "done"} /\ Offending(hk[t].batch)) =>
            /\ hk[t].err
            /\ hooks = hk[t].snap

RECURSIVE Concat(_, _)
Concat(order, n) ==
    IF n = 0 THEN <<>> ELSE Concat(order, n - 1) \o hk[order[n]].batch

Orders == {f \in [Threads -> Threads] : \A i, j \in Threads : f[i] = f[j] => i = j}

InLoop(t) == hk[t].pc \in {"loop", "unlock"}

\* C8: at most one AddHooks call is inside the registration loop at a time,
\* and once every call has returned the hook list is the batches of
\* conforming hooks one after another, each whole and in argument order.
C8_ConcurrentAddHooks ==
    /\ \A t, u \in Threads : (InLoop(t) /\ InLoop(u)) => t = u
    /\ (\A t \in Threads : hk[t].pc = "done") =>
          /\ \A t \in Threads : ~hk[t].err
          /\ \E f \in Orders : hooks = Concat(f, NumThreads)

\* C8 witness: both calls have returned, each with a full batch, the two
\* batches differ, and goroutine 2 held the mutex first.
C8_Witness ==
    /\ \A t \in Threads : hk[t].pc = "done"
    /\ Len(hk[1].batch) = MaxBatch /\ Len(hk[2].batch) = MaxBatch
    /\ hk[1].snap = hk[2].batch
    /\ hk[1].batch # hk[2].batch

\* C5: New with a nil shutdown channel returns a nil Logger and an error,
\* whatever the level and the outputs, and opens or creates no file.
C5_NilBreakerNoFileIO ==
    [][((nw' # nw \/ fds' # fds \/ created' # created) /\ nw'.breaker = NilChan) =>
          /\ nw'.logger = NilLogger
          /\ nw'.err # NoErr
          /\ fds' = fds
          /\ created' = created
      ]_vars

\* C5 witness: New(nil, "info", a valid path) has returned its error and the
\* path was neither opened nor created.
C5_Witness ==
    /\ nw.breaker = NilChan /\ nw.level = InfoLevel /\ nw.outputs = <<"f1">>
    /\ nw.err # NoErr
    /\ "f1" \notin created

\* C6: after a successful New with N valid paths the output is standard error
\* followed by the N files, and every record emitted afterwards is written to
\* standard error and to each of the N files.
C6_OutputIsStderrPlusFiles ==
    nw.logger # NilLogger =>
        /\ nw.logger.Out = <<Stderr>> \o nw.outputs
        /\ written[Stderr] = emitted
        /\ \A i \in 1..Len(nw.outputs) : written[nw.outputs[i]] >= emitted

\* C4: GracefulFatal never blocks its caller: whatever the channel, the
\* senders and the receiver are doing, the caller's next step inside
\* GracefulFatal can be taken.
C4_CallerNeverBlocks ==
    /\ caller.pc = "go" => ENABLED GracefulFatal_Go
    /\ caller.pc = "deferred" => ENABLED GracefulFatal_Return

\* C4 witness: every call allowed has returned, on the Logger and on a
\* derived entry, while nothing was ever received and senders are still parked.
C4_Witness ==
    /\ Len(gs) = MaxCalls
    /\ caller.pc = "idle"
    /\ received = <<>> /\ ~recvWaiting /\ ~closed
    /\ Len(sendq) >= 1
    /\ \E g \in 1..Len(gs) : gs[g].h = Root
    /\ \E g \in 1..Len(gs) : gs[g].h # Root

\* C9: with a supervisor that keeps receiving and a fair scheduler, every
\* GracefulFatal call made on the Logger or on a derived entry has its value
\* received, once, and nothing else is received.
C9_EverySignalDelivered ==
    /\ [](\A i, j \in 1..Len(received) : received[i] = received[j] => i = j)
    /\ [](Range(received) \subseteq 1..Len(gs))
    /\ \A g \in 1..MaxCalls : (Len(gs) >= g) ~> (g \in Range(received))
    /\ \A g \in 1..MaxCalls :
          (caller.pc = "go" /\ Len(gs) = g - 1) ~> (g \in Range(received))

\* C9 witness: every call allowed was made, on the Logger and on a derived
\* entry, and all their values have been received.
C9_Witness ==
    /\ Len(gs) = MaxCalls
    /\ Len(received) = MaxCalls
    /\ \E g \in 1..Len(gs) : gs[g].h = Root
    /\ \E g \in 1..Len(gs) : gs[g].h # Root

\* C10: once the shutdown channel is closed no panic escapes: a sender that
\* was parked at the close, and the sender of every call made after it, ends
\* recovered and delivers nothing; the caller still goes through GracefulFatal.
C10_ClosedChannelNeverCrashes ==
    /\ ~crashed
    /\ closed => sendq = <<>>
    /\ \A g \in 1..Len(gs) :
          (gs[g].late \/ gs[g].hit) =>
              /\ g \notin Range(received)
              /\ gs[g].st \in {"runnable", "panicking", "recovered"}
    /\ (closed /\ caller.pc = "go") => ENABLED GracefulFatal_Go

\* C10 witness: the channel was closed on a parked sender, a call was made
\* after the close, and both senders ended recovered.
C10_Witness ==
    /\ closed
    /\ caller.pc = "idle"
    /\ \E g \in 1..Len(gs) : gs[g].hit /\ gs[g].st = "recovered"
    /\ \E g \in 1..Len(gs) : gs[g].late /\ gs[g].st = "recovered"

====
